---------------------------- MODULE Spec2Model ----------------------------
(***************************************************************************)
(* Model of the conversational RAG route handler app/api/chat/route.ts     *)
(* (src/unnamed/part_000): query resolution, history normalisation,        *)
(* evidence retrieval, prompt assembly and answer synthesis.               *)
(*                                                                         *)
(* Representation.                                                         *)
(*  - A JavaScript string is a sequence of tokens.  The tokens " ", "\n"   *)
(*    and "\t" are the white space String.prototype.trim removes; every    *)
(*    other token is a piece of text without leading or trailing white     *)
(*    space (one character, or one literal of a template).                 *)
(*  - A JSON object is a record whose DOMAIN holds exactly the fields that *)
(*    are present and not null, so that `a.x ?? b` reads                   *)
(*    IF "x" \in DOMAIN a THEN a.x ELSE b.                                 *)
(*  - A JavaScript number is [nan |-> BOOLEAN, v |-> Int].                 *)
(***************************************************************************)
EXTENDS Integers, Sequences, FiniteSets, TLC

VARIABLES
    pc,          \* position of the handler / of the function under test
    reqKind,     \* what req.json() met: "object", "null" or "invalid"
    body,        \* the parsed request body (ChatBody)
    q,           \* POST: const q
    topK,        \* POST: const topK
    maxTurns,    \* normalizeHistory: parameter maxTurns
    rpcArgs,     \* searchSupabase: args handed to supabase.rpc
    rpcData,     \* searchSupabase: data returned by supabase.rpc
    retrieved,   \* POST: const retrieved
    history,     \* POST: const history
    messages,    \* POST: const messages (the assembled prompt)
    calls,       \* external calls made so far, in order
    results,     \* how each external call ended ("ok" / "fail"), in order
    responses,   \* responses returned by the handler, in order
    chat,        \* POST: const chat (what the completion call returned)
    client       \* a chat page: its React state, last render and requests

vars == <<pc, reqKind, body, q, topK, maxTurns, rpcArgs, rpcData, retrieved,
          history, messages, calls, results, responses, chat, client>>

-----------------------------------------------------------------------------
(* Bounds of the model *)

MaxMsgs == 2
MaxRows == 2
MaxFnMsgs == 3
MaxN == 3
MaxHist == 2
MaxCtx == 2

-----------------------------------------------------------------------------
(* Program constants *)

DefaultTopK == 20
TopKMax == 60
ContentLimit == 4000
HistoryMaxTurns == 60

-----------------------------------------------------------------------------
(* JavaScript strings *)

IsWs(c) == c \in {" ", "\n", "\t"}

\* String.prototype.trim: what lies between the first and the last token
\* that is not white space
Trim(s) ==
    LET nonWs == {i \in 1..Len(s) : ~IsWs(s[i])}
    IN  IF nonWs = {} THEN <<>>
        ELSE SubSeq(s, CHOOSE i \in nonWs : \A j \in nonWs : i <= j,
                       CHOOSE i \in nonWs : \A j \in nonWs : j <= i)

\* String.prototype.slice(0, n), n >= 0
StrSlice0(s, n) == SubSeq(s, 1, IF Len(s) < n THEN Len(s) ELSE n)

\* slice(0, n) in place of slice(-n): the head is kept, not the tail
ArraySlice_head(arr, start) ==
    SubSeq(arr, 1, IF -start < Len(arr) THEN -start ELSE Len(arr))

\* Array.prototype.slice(start): a negative start counts from the end, and
\* -0 is 0
ArraySlice(arr, start) ==
    LET k == IF start < 0
             THEN (IF Len(arr) + start > 0 THEN Len(arr) + start ELSE 0)
             ELSE (IF start < Len(arr) THEN start ELSE Len(arr))
    IN  SubSeq(arr, k + 1, Len(arr))

\* Array.prototype.join
RECURSIVE Join(_, _)
Join(parts, sep) ==
    IF parts = <<>> THEN <<>>
    ELSE IF Len(parts) = 1 THEN parts[1]
    ELSE parts[1] \o sep \o Join(Tail(parts), sep)

-----------------------------------------------------------------------------
(* JavaScript numbers *)

Num(n) == [nan |-> FALSE, v |-> n]
NaN == [nan |-> TRUE, v |-> 0]

Digits == <<"0", "1", "2", "3", "4", "5", "6", "7", "8", "9">>
IsDigit(c) == \E d \in 1..10 : Digits[d] = c
DigitVal(c) == (CHOOSE d \in 1..10 : Digits[d] = c) - 1

RECURSIVE ParseDigits(_, _)
ParseDigits(s, acc) ==
    IF s = <<>> THEN acc ELSE ParseDigits(Tail(s), 10 * acc + DigitVal(Head(s)))

\* Number(v) of a JSON value: a number is itself; a string is trimmed, the
\* empty string is 0, a run of digits (with an optional minus) is its
\* value, anything else is NaN (the strings drawn below hold no fraction,
\* exponent or radix prefix)
Number(j) ==
    IF j.type = "number" THEN Num(j.n)
    ELSE LET t == Trim(j.s)
             neg == t # <<>> /\ Head(t) = "-"
             d == IF neg THEN Tail(t) ELSE t
         IN  IF t = <<>> THEN Num(0)
             ELSE IF d # <<>> /\ \A i \in 1..Len(d) : IsDigit(d[i])
                  THEN Num((IF neg THEN -1 ELSE 1) * ParseDigits(d, 0))
                  ELSE NaN

\* Math.min, Math.max: NaN if either argument is NaN
MathMin(a, b) ==
    IF a.nan \/ b.nan THEN NaN ELSE IF a.v <= b.v THEN a ELSE b
MathMax(a, b) ==
    IF a.nan \/ b.nan THEN NaN ELSE IF a.v >= b.v THEN a ELSE b

JNum(n) == [type |-> "number", n |-> n]
JStr(s) == [type |-> "string", s |-> s]

-----------------------------------------------------------------------------
(* The route's configuration, read once at module load *)

\* const RPC_NAME = env("SUPABASE_MATCH_RPC") ?? "match_documents"
RPC_NAME == "match_documents"

\* const MATCH_THRESHOLD = Number(env("SUPABASE_MATCH_THRESHOLD") ?? "0")
MATCH_THRESHOLD == Number(JStr(<<"0">>))

-----------------------------------------------------------------------------
(* searchSupabase: one backend row to one Retrieved record *)

TextFields == <<"content", "text", "chunk", "body", "page_text", "document">>
SourceFields == <<"source", "url", "source_url", "page_url", "doc_url", "path">>
ScoreFields == <<"similarity", "score">>

\* row.f1 ?? row.f2 ?? ... ?? dflt : the first field that is present (not
\* null or undefined), whatever its value
RECURSIVE Coalesce(_, _, _)
Coalesce(row, fields, dflt) ==
    IF fields = <<>> THEN dflt
    ELSE IF Head(fields) \in DOMAIN row THEN row[Head(fields)]
    ELSE Coalesce(row, Tail(fields), dflt)

normalizeRow(row) ==
    [text |-> Trim(Coalesce(row, TextFields, <<>>)),
     source |-> Trim(Coalesce(row, SourceFields, <<>>)),
     similarity |-> Number(Coalesce(row, ScoreFields, JNum(0)))]

\* the filter also asking for a source: unattributed evidence is lost
keepRetrieved_needsSource(r) == Len(r.text) > 0 /\ Len(r.source) > 0

\* (r) => r.text.length > 0
keepRetrieved(r) == Len(r.text) > 0

\* rows.map(...).filter((r) => r.text.length > 0)
normalizeRows(rows) ==
    SelectSeq([i \in 1..Len(rows) |-> normalizeRow(rows[i])], keepRetrieved)

-----------------------------------------------------------------------------
(* lastUserFromHistory *)

HasMessages(b) == "messages" \in DOMAIN b

\* String(m?.content ?? "")
ContentOf(m) == IF "content" \in DOMAIN m THEN m.content ELSE <<>>

\* find without the reverse: the first user turn, not the last
FindLastUser_first(msgs) ==
    LET us == {i \in 1..Len(msgs) : msgs[i].role = "user"}
    IN  IF us = {} THEN 0 ELSE CHOOSE i \in us : \A j \in us : i <= j

\* [...msgs].reverse().find((m) => m?.role === "user"): the index of the
\* last turn whose role is "user", 0 when there is none
FindLastUser(msgs) ==
    LET us == {i \in 1..Len(msgs) : msgs[i].role = "user"}
    IN  IF us = {} THEN 0 ELSE CHOOSE i \in us : \A j \in us : j <= i

\* String(body.question ?? body.message ?? "").trim()
legacyQuery(b) ==
    Trim(IF "question" \in DOMAIN b THEN b.question
         ELSE IF "message" \in DOMAIN b THEN b.message
         ELSE <<>>)

lastUserFromHistory(b) ==
    IF HasMessages(b) /\ Len(b.messages) > 0
    THEN LET i == FindLastUser(b.messages)
             u == Trim(IF i = 0 THEN <<>> ELSE ContentOf(b.messages[i]))
         IN  IF u # <<>> THEN u ELSE legacyQuery(b)
    ELSE legacyQuery(b)

-----------------------------------------------------------------------------
(* normalizeHistory *)

roleKept(m) == m.role = "user" \/ m.role = "assistant"
contentKept(m) == Len(Trim(m.content)) > 0

normalizeHistory(b, n) ==
    LET raw == IF HasMessages(b) THEN b.messages ELSE <<>>
        byRole == SelectSeq(raw, roleKept)
        mapped == [i \in 1..Len(byRole) |->
                     [role |-> byRole[i].role,
                      content |-> StrSlice0(ContentOf(byRole[i]), ContentLimit)]]
        cleaned == SelectSeq(mapped, contentKept)
    IN  ArraySlice(cleaned, -n)

-----------------------------------------------------------------------------
(* buildMessagesWithHistory *)

SystemPolicy == <<"SYSTEM_POLICY">>
NoContext == <<"(NO_CONTEXT)">>

\* `[#${i + 1}] source: ${c.source}\n${c.text}`.trim()
\* an entry whose source is empty rendered without its source label
digestEntry_skipEmptySource(c, i) ==
    IF c.source = <<>>
    THEN Trim(<<"[#" \o ToString(i) \o "]", "\n">> \o c.text)
    ELSE Trim(<<"[#" \o ToString(i) \o "]", " ", "source:", " ">> \o c.source
              \o <<"\n">> \o c.text)

digestEntry(c, i) ==
    Trim(<<"[#" \o ToString(i) \o "]", " ", "source:", " ">> \o c.source
         \o <<"\n">> \o c.text)

\* contexts.map(...).join("\n\n")
digest(contexts) ==
    Join([i \in 1..Len(contexts) |-> digestEntry(contexts[i], i)],
         <<"\n", "\n">>)

\* the placeholder left out: the evidence section of an empty digest is empty
finalUser_noPlaceholder(question, contexts) ==
    <<"#CONTEXT", "\n">> \o digest(contexts)
    \o <<"\n", "\n", "#QUESTION", "\n">> \o question
    \o <<"\n", "\n", "#ANSWER", "\n">>

finalUser(question, contexts) ==
    LET ctx == digest(contexts)
    IN  <<"#CONTEXT", "\n">> \o (IF ctx # <<>> THEN ctx ELSE NoContext)
        \o <<"\n", "\n", "#QUESTION", "\n">> \o question
        \o <<"\n", "\n", "#ANSWER", "\n">>

\* the digest put into the system block in place of the final user block
buildMessagesWithHistory_digestInSystem(question, hist, contexts) ==
    <<[role |-> "system", content |-> SystemPolicy \o <<"\n">> \o digest(contexts)]>>
    \o [i \in 1..Len(hist) |-> [role |-> hist[i].role, content |-> hist[i].content]]
    \o <<[role |-> "user", content |-> finalUser(question, <<>>)]>>

buildMessagesWithHistory(question, hist, contexts) ==
    <<[role |-> "system", content |-> SystemPolicy]>>
    \o [i \in 1..Len(hist) |-> [role |-> hist[i].role, content |-> hist[i].content]]
    \o <<[role |-> "user", content |-> finalUser(question, contexts)]>>

-----------------------------------------------------------------------------
(* POST: the pieces of the handler *)

\* the guard left out: an empty query goes on to retrieval
emptyQuery_never(qq) == FALSE

\* if (!q)
emptyQuery(qq) == qq = <<>>

\* NextResponse.json({ error: "question (or message) is required" }, { status: 400 })
emptyQueryResponse ==
    [status |-> 400, body |-> [error |-> "question (or message) is required"]]

\* Math.max(1, Math.min(Number(body.top_k ?? 20), 60))
clampTopK(b) ==
    MathMax(Num(1),
            MathMin(Number(IF "top_k" \in DOMAIN b THEN b.top_k
                           ELSE JNum(DefaultTopK)),
                    Num(TopKMax)))

\* args of supabase.rpc: match_threshold only when MATCH_THRESHOLD > 0
searchArgs(qEmb, k) ==
    IF ~MATCH_THRESHOLD.nan /\ MATCH_THRESHOLD.v > 0
    THEN [query_embedding |-> qEmb, match_count |-> k,
          match_threshold |-> MATCH_THRESHOLD]
    ELSE [query_embedding |-> qEmb, match_count |-> k]

\* the backend's error swallowed: the request goes on with no evidence
rpcFailed_swallowed(res) == FALSE

\* if (error) throw new Error(...)
rpcFailed(res) == "error" \in DOMAIN res

\* a visible text in place of the empty string when the model gave nothing
answerOf_placeholder(ch) ==
    IF Len(ch.choices) = 0 THEN <<"(no answer)">>
    ELSE IF "message" \notin DOMAIN ch.choices[1] THEN <<"(no answer)">>
    ELSE IF "content" \notin DOMAIN ch.choices[1].message THEN <<"(no answer)">>
    ELSE ch.choices[1].message.content

\* chat.choices[0]?.message?.content ?? ""
answerOf(ch) ==
    IF Len(ch.choices) = 0 THEN <<>>
    ELSE IF "message" \notin DOMAIN ch.choices[1] THEN <<>>
    ELSE IF "content" \notin DOMAIN ch.choices[1].message THEN <<>>
    ELSE ch.choices[1].message.content

\* the references listed best-last: no longer aligned with the digest
referencesOf_reversed(rs) ==
    [i \in 1..Len(rs) |-> [source |-> rs[Len(rs) + 1 - i].source,
                           score |-> rs[Len(rs) + 1 - i].similarity]]

\* retrieved.map((r) => ({ source: r.source, score: Number(r.similarity) }))
referencesOf(rs) ==
    [i \in 1..Len(rs) |-> [source |-> rs[i].source, score |-> rs[i].similarity]]

\* retrieved.map((r) => ({ text: r.text, source: r.source }))
contextsOf(rs) ==
    [i \in 1..Len(rs) |-> [text |-> rs[i].text, source |-> rs[i].source]]

successResponse(answer, rs, k, hist) ==
    [status |-> 200,
     body |-> [answer |-> answer,
               references |-> referencesOf(rs),
               meta |-> [top_k |-> k, rpc |-> RPC_NAME, hits |-> Len(rs),
                         threshold |-> MATCH_THRESHOLD,
                         used_history |-> Len(hist)]]]

\* the { status: 500 } option left out: the error goes out with status 200
errorResponse_status200(e) ==
    [status |-> 200, body |-> [error |-> e.name \o ": " \o e.message]]

\* catch (e): `${e?.name ?? "Error"}: ${e?.message ?? String(e)}`, status 500
errorResponse(e) ==
    [status |-> 500, body |-> [error |-> e.name \o ": " \o e.message]]

-----------------------------------------------------------------------------
(* The requests and the collaborators' answers the model draws from *)

NoFields == [f \in {} |-> <<>>]

SeqsUpTo(S, n) == UNION {[1..k -> S] : k \in 0..n}

HandlerTurns ==
    [role : {"user", "assistant"}, content : {<<" ">>, <<"a", " ">>}]

MessagesParts ==
    {NoFields} \cup {[messages |-> s] : s \in SeqsUpTo(HandlerTurns, MaxMsgs)}
QuestionParts ==
    {NoFields, [question |-> <<" ">>], [question |-> <<" ", "q">>]}
MessageParts ==
    {NoFields, [message |-> <<>>], [message |-> <<"m">>]}
TopKParts ==
    {[top_k |-> JNum(n)] : n \in {-3, 0, 1, 8, 60, 61}}
    \cup {[top_k |-> JStr(<<"8">>)], [top_k |-> JStr(<<"a", "b", "c">>)]}

Bodies ==
    {m @@ qu @@ me : m \in MessagesParts, qu \in QuestionParts, me \in MessageParts}
    \cup {[question |-> <<"q">>] @@ k : k \in TopKParts}

HandlerRows ==
    { [content |-> <<"A">>, source |-> <<"s">>, similarity |-> JNum(9)],
      [content |-> <<" ">>, text |-> <<"C">>, source |-> <<"t">>],
      [text |-> <<"B", " ">>, score |-> JNum(5)],
      [url |-> <<"u">>, similarity |-> JNum(7)] }

RpcResults ==
    {[error |-> [message |-> "permission denied"]], NoFields}
    \cup {[data |-> rows] : rows \in SeqsUpTo(HandlerRows, MaxRows)}

ChatResults ==
    { [choices |-> <<>>],
      [choices |-> <<[message |-> [role |-> "assistant"]]>>],
      [choices |-> <<[message |-> [role |-> "assistant", content |-> <<"ans">>]]>>] }

-----------------------------------------------------------------------------
(* POST: the handler, one action per stretch of code between two awaits *)

Respond(r) ==
    /\ responses' = Append(responses, r)
    /\ pc' = "done"

\* await req.json() rejects: the body is not JSON
POST_BadJson ==
    /\ pc = "start"
    /\ reqKind' = "invalid"
    /\ Respond(errorResponse([name |-> "SyntaxError", message |-> "Unexpected token"]))
    /\ UNCHANGED <<body, q, topK, maxTurns, rpcArgs, rpcData, retrieved, history,
                   messages, calls, results>>
    /\ UNCHANGED <<chat, client>>

\* the body is the JSON value null: body.messages throws a TypeError
POST_NullBody ==
    /\ pc = "start"
    /\ reqKind' = "null"
    /\ Respond(errorResponse([name |-> "TypeError",
                              message |-> "Cannot read properties of null"]))
    /\ UNCHANGED <<body, q, topK, maxTurns, rpcArgs, rpcData, retrieved, history,
                   messages, calls, results>>
    /\ UNCHANGED <<chat, client>>

\* from the parsed body to the embedding call (or to the 400 response)
POST_Resolve(b) ==
    /\ pc = "start"
    /\ reqKind' = "object"
    /\ body' = b
    /\ q' = lastUserFromHistory(b)
    /\ IF emptyQuery(q')
       THEN /\ Respond(emptyQueryResponse)
            /\ UNCHANGED <<topK, calls>>
       ELSE /\ topK' = clampTopK(b)
            /\ calls' = Append(calls, "embedding")
            /\ pc' = "await_embedding"
            /\ UNCHANGED responses
    /\ UNCHANGED <<maxTurns, rpcArgs, rpcData, retrieved, history, messages, results>>
    /\ UNCHANGED <<chat, client>>

\* embedQuery throws: the request ends in the catch block
EmbeddingFails ==
    /\ pc = "await_embedding"
    /\ results' = Append(results, "fail")
    /\ Respond(errorResponse([name |-> "APIError", message |-> "embedding failed"]))
    /\ UNCHANGED <<reqKind, body, q, topK, maxTurns, rpcArgs, rpcData, retrieved,
                   history, messages, calls>>
    /\ UNCHANGED <<chat, client>>

\* embedQuery returns: supabase.rpc is called with the vector and topK
EmbeddingReturns ==
    /\ pc = "await_embedding"
    /\ results' = Append(results, "ok")
    /\ rpcArgs' = searchArgs([embeddingOf |-> q], topK)
    /\ calls' = Append(calls, "search")
    /\ pc' = "await_search"
    /\ UNCHANGED <<reqKind, body, q, topK, maxTurns, rpcData, retrieved, history,
                   messages, responses>>
    /\ UNCHANGED <<chat, client>>

\* supabase.rpc returns { data, error }: on an error the request ends in the
\* catch block, else the rows are normalised, the history is normalised, the
\* prompt is assembled and the completion is called
SearchReturns(res) ==
    /\ pc = "await_search"
    /\ results' = Append(results, IF "error" \in DOMAIN res THEN "fail" ELSE "ok")
    /\ IF rpcFailed(res)
       THEN /\ Respond(errorResponse(
                   [name |-> "Error",
                    message |-> "supabase.rpc(" \o RPC_NAME \o ") failed: "
                                \o res.error.message]))
            /\ UNCHANGED <<rpcData, retrieved, history, messages, calls>>
       ELSE /\ rpcData' = (IF "data" \in DOMAIN res THEN res.data ELSE <<>>)
            /\ retrieved' = normalizeRows(rpcData')
            /\ history' = normalizeHistory(body, maxTurns)
            /\ messages' = buildMessagesWithHistory(q, history', contextsOf(retrieved'))
            /\ calls' = Append(calls, "completion")
            /\ pc' = "await_completion"
            /\ UNCHANGED responses
    /\ UNCHANGED <<reqKind, body, q, topK, maxTurns, rpcArgs>>
    /\ UNCHANGED <<chat, client>>

\* openai.chat.completions.create throws
CompletionFails ==
    /\ pc = "await_completion"
    /\ results' = Append(results, "fail")
    /\ Respond(errorResponse([name |-> "APIError", message |-> "completion failed"]))
    /\ UNCHANGED <<reqKind, body, q, topK, maxTurns, rpcArgs, rpcData, retrieved,
                   history, messages, calls>>
    /\ UNCHANGED <<chat, client>>

\* openai.chat.completions.create returns: the success response
CompletionReturns(res) ==
    /\ pc = "await_completion"
    /\ results' = Append(results, "ok")
    /\ chat' = res
    /\ Respond(successResponse(answerOf(chat'), retrieved, topK, history))
    /\ UNCHANGED <<reqKind, body, q, topK, maxTurns, rpcArgs, rpcData, retrieved,
                   history, messages, calls>>
    /\ UNCHANGED client

Init ==
    /\ pc = "start"
    /\ reqKind = "none"
    /\ body = NoFields
    /\ q = <<>>
    /\ topK = Num(0)
    /\ maxTurns = HistoryMaxTurns
    /\ rpcArgs = NoFields
    /\ rpcData = <<>>
    /\ retrieved = <<>>
    /\ history = <<>>
    /\ messages = <<>>
    /\ calls = <<>>
    /\ results = <<>>
    /\ responses = <<>>
    /\ chat = NoFields
    /\ client = NoFields

Next ==
    \/ POST_BadJson
    \/ POST_NullBody
    \/ \E b \in Bodies : POST_Resolve(b)
    \/ EmbeddingFails
    \/ EmbeddingReturns
    \/ \E res \in RpcResults : SearchReturns(res)
    \/ CompletionFails
    \/ \E res \in ChatResults : CompletionReturns(res)

Spec == Init /\ [][Next]_vars

-----------------------------------------------------------------------------
(* Claims about the handler, checked under Spec *)

Range(f) == {f[i] : i \in DOMAIN f}

IsErrorOnly(r) == DOMAIN r.body = {"error"}
IsSuccess(r) == r.status = 200 /\ DOMAIN r.body = {"answer", "references", "meta"}

CallOrder == <<"embedding", "search", "completion">>

\* C1: a request whose resolved query is empty makes no embedding, search or
\* completion call and is answered at once with status 400 and a body that
\* holds an error string and nothing else.
C1_EmptyQueryShortCircuits ==
    (reqKind = "object" /\ q = <<>>) =>
        /\ calls = <<>>
        /\ pc = "done"
        /\ Len(responses) = 1
        /\ responses[1].status = 400
        /\ IsErrorOnly(responses[1])

\* C1 witness: a request that carries turns, none of them usable, and blank
\* legacy fields has been rejected.
C1_Witness ==
    /\ reqKind = "object" /\ q = <<>> /\ pc = "done"
    /\ HasMessages(body) /\ Len(body.messages) = 2
    /\ "question" \in DOMAIN body

\* C2: the external calls of a request are a prefix of embedding, search,
\* completion (each at most once, in that order); a call is made only after
\* every earlier call has returned successfully; a failed call is the last
\* call of the request.
C2_CallsInOrderNoRetry ==
    /\ Len(calls) <= Len(CallOrder)
    /\ calls = SubSeq(CallOrder, 1, Len(calls))
    /\ Len(results) <= Len(calls)
    /\ Len(calls) <= Len(results) + 1
    /\ \A i \in 1..Len(results) :
          results[i] = "fail" => (i = Len(calls) /\ pc = "done")
    /\ (Len(results) >= 1 /\ results[1] = "fail") =>
          ("search" \notin Range(calls) /\ "completion" \notin Range(calls))
    /\ (Len(results) >= 2 /\ results[2] = "fail") =>
          "completion" \notin Range(calls)

\* C2 witness: the search failed after a successful embedding and the
\* request is over.
C2_Witness ==
    /\ pc = "done"
    /\ calls = <<"embedding", "search">>
    /\ results = <<"ok", "fail">>

\* C3: a request has no response while it runs and exactly one when it is
\* over; a response is either a success (answer, references, meta) or an
\* error string alone; after a failed embedding, search or completion call
\* the response has status 500 and holds only the error string; a request
\* that is not over can always take a step.
C3_OneResponseNoPartial ==
    /\ Len(responses) <= 1
    /\ (pc = "done") <=> (Len(responses) = 1)
    /\ \A i \in 1..Len(responses) :
          \/ IsSuccess(responses[i])
          \/ (responses[i].status \in {400, 500} /\ IsErrorOnly(responses[i]))
    /\ (pc = "done" /\ "fail" \in Range(results)) =>
          (responses[1].status = 500 /\ IsErrorOnly(responses[1]))
    /\ (pc # "done") => ENABLED Next

\* C3 witness: the completion failed after evidence had been retrieved, and
\* the response is the error alone.
C3_Witness ==
    /\ pc = "done"
    /\ results = <<"ok", "ok", "fail">>
    /\ Len(retrieved) = 2
    /\ responses[1].status = 500

\* the most recent user turn of the request, if any, has no text
NoUsableUserTurn(b) ==
    \/ ~HasMessages(b)
    \/ \A i \in 1..Len(b.messages) : b.messages[i].role # "user"
    \/ \E i \in 1..Len(b.messages) :
          /\ b.messages[i].role = "user"
          /\ \A j \in (i + 1)..Len(b.messages) : b.messages[j].role # "user"
          /\ Trim(b.messages[i].content) = <<>>

HasText(b, f) == f \in DOMAIN b /\ Trim(b[f]) # <<>>

\* C5 (as claimed): the resolver yields a non-empty query or the request is
\* rejected with status 400; and when the most recent user turn gives no
\* text, a question or a message field that is non-empty after trimming
\* yields a non-empty query and the request is not rejected.
C5_LegacyFieldRescues ==
    (reqKind = "object") =>
        /\ (q # <<>>) \/ (pc = "done" /\ responses[1].status = 400)
        /\ (NoUsableUserTurn(body)
            /\ (HasText(body, "question") \/ HasText(body, "message")))
           => (q # <<>> /\ ~(pc = "done" /\ responses[1].status = 400))

\* the positions of the rows whose extracted text is not blank
KeptRows(rows) ==
    {i \in 1..Len(rows) : Trim(Coalesce(rows[i], TextFields, <<>>)) # <<>>}

\* the j-th smallest element of a set of numbers
Nth(S, j) == CHOOSE x \in S : Cardinality({y \in S : y < x}) = j - 1

\* C7: once the search has succeeded, every evidence record has a text that
\* is non-empty and trimmed; the records are exactly the rows whose
\* extracted text is not blank, whatever their source, in the rows' order.
C7_EvidenceTextNonEmpty ==
    (Len(calls) = 3) =>
        /\ \A j \in 1..Len(retrieved) :
              retrieved[j].text # <<>> /\ Trim(retrieved[j].text) = retrieved[j].text
        /\ Len(retrieved) = Cardinality(KeptRows(rpcData))
        /\ \A j \in 1..Len(retrieved) :
              LET row == rpcData[Nth(KeptRows(rpcData), j)]
              IN  /\ retrieved[j].text = Trim(Coalesce(row, TextFields, <<>>))
                  /\ retrieved[j].source = Trim(Coalesce(row, SourceFields, <<>>))

\* C7 witness: of two rows the blank one was discarded and the one without a
\* source was kept.
C7_Witness ==
    /\ Len(calls) = 3
    /\ Len(rpcData) = 2
    /\ Len(retrieved) = 1
    /\ retrieved[1].source = <<>>
    /\ KeptRows(rpcData) = {2}

InRange(k) == ~k.nan /\ 1 <= k.v /\ k.v <= 60

\* C8 (as claimed): whatever top_k the request carries, the effective k is
\* in [1, 60], is top_k itself when that is in the range and 20 when top_k
\* is absent, and is what the search gets as match_count and the response
\* reports as meta.top_k.
C8_TopKClamped ==
    (reqKind = "object" /\ q # <<>>) =>
        /\ InRange(topK)
        /\ ("top_k" \notin DOMAIN body) => topK = Num(20)
        /\ ("top_k" \in DOMAIN body /\ body.top_k.type = "number"
            /\ body.top_k.n \in 1..60) => topK = Num(body.top_k.n)
        /\ ("search" \in Range(calls)) => rpcArgs.match_count = topK
        /\ (pc = "done" /\ IsSuccess(responses[1]))
           => responses[1].body.meta.top_k = topK

Contains(s, sub) ==
    \E k \in 0..(Len(s) - Len(sub)) : SubSeq(s, k + 1, k + Len(sub)) = sub

IndexToken(i) == "[#" \o ToString(i) \o "]"

\* the number of digest index tokens [#1], [#2], ... in a text
IndexTokens(s) ==
    Cardinality({k \in 1..Len(s) : \E i \in 1..Len(s) : s[k] = IndexToken(i)})

\* C10: in a success response references[i] holds the source and score of
\* the i-th evidence record, which the final block of the prompt renders as
\* entry [#i]; there are as many references as digest entries, meta.hits is
\* that number and meta.used_history is the number of history blocks.
C10_ReferencesAlignWithDigest ==
    (pc = "done" /\ IsSuccess(responses[1])) =>
        LET r == responses[1].body
            last == messages[Len(messages)].content
        IN  /\ Len(r.references) = Len(retrieved)
            /\ \A i \in 1..Len(retrieved) :
                  /\ r.references[i].source = retrieved[i].source
                  /\ r.references[i].score = retrieved[i].similarity
                  /\ Contains(last, <<IndexToken(i), " ", "source:", " ">>
                                    \o r.references[i].source \o <<"\n">>
                                    \o retrieved[i].text)
            /\ IndexTokens(last) = Len(r.references)
            /\ r.meta.hits = Len(r.references)
            /\ r.meta.used_history = Len(messages) - 2
            /\ \A i \in 1..r.meta.used_history : messages[i + 1] = history[i]

\* C10 witness: a success response with two references of different sources
\* and one history block.
C10_Witness ==
    /\ pc = "done" /\ IsSuccess(responses[1])
    /\ Len(responses[1].body.references) = 2
    /\ responses[1].body.references[1].source # responses[1].body.references[2].source
    /\ responses[1].body.meta.used_history = 1

\* C11: when the search succeeds and leaves no evidence record (no rows, or
\* every row discarded), the completion is called once with a prompt whose
\* evidence section is the placeholder, the request ends in an error only if
\* that completion fails, and the success response has no references and
\* meta.hits = 0.
C11_EmptyEvidenceStillAnswers ==
    (Len(results) >= 2 /\ results[2] = "ok" /\ KeptRows(rpcData) = {}) =>
        /\ calls = CallOrder
        /\ Cardinality({i \in 1..Len(calls) : calls[i] = "completion"}) = 1
        /\ Contains(messages[Len(messages)].content,
                    <<"#CONTEXT", "\n">> \o NoContext \o <<"\n", "\n", "#QUESTION">>)
        /\ (pc = "done") =>
              IF results[3] = "ok"
              THEN /\ IsSuccess(responses[1])
                   /\ responses[1].body.references = <<>>
                   /\ responses[1].body.meta.hits = 0
              ELSE responses[1].status = 500

\* C11 witness: both rows of the backend were discarded and the request
\* ended in a success response.
C11_Witness ==
    /\ pc = "done"
    /\ Len(rpcData) = 2 /\ KeptRows(rpcData) = {}
    /\ IsSuccess(responses[1])
    /\ responses[1].body.meta.hits = 0

\* the completion holds no first choice, or its first choice no content
NoContent(ch) ==
    \/ Len(ch.choices) = 0
    \/ "message" \notin DOMAIN ch.choices[1]
    \/ "content" \notin DOMAIN ch.choices[1].message

\* C12: when the completion returns without a first choice or without
\* content, the response is a success whose answer is the empty string and
\* whose references and meta are as for any answer; a call that fails is
\* never turned into a success.
C12_NoContentGivesEmptyAnswer ==
    /\ (pc = "done" /\ Len(results) = 3 /\ results[3] = "ok" /\ NoContent(chat)) =>
          /\ IsSuccess(responses[1])
          /\ responses[1].body.answer = <<>>
          /\ Len(responses[1].body.references) = Len(retrieved)
          /\ \A i \in 1..Len(retrieved) :
                responses[1].body.references[i].source = retrieved[i].source
          /\ responses[1].body.meta.hits = Len(retrieved)
          /\ responses[1].body.meta.top_k = topK
          /\ responses[1].body.meta.used_history = Len(history)
    /\ (pc = "done" /\ "fail" \in Range(results)) => ~IsSuccess(responses[1])

\* C12 witness: the completion returned no choice after one evidence record
\* was retrieved, and the response is a success.
C12_Witness ==
    /\ pc = "done" /\ Len(results) = 3 /\ results[3] = "ok"
    /\ chat.choices = <<>>
    /\ Len(retrieved) = 1
    /\ responses[1].status = 200

-----------------------------------------------------------------------------
(* lastUserFromHistory on its own: SpecResolve *)

ResolveTurns ==
    [role : {"user", "assistant"},
     content : {<<" ">>, <<" ", "a">>, <<"b", " ">>}]

ResolveBodies ==
    {m @@ qu @@ me :
        m \in {NoFields} \cup {[messages |-> t] : t \in SeqsUpTo(ResolveTurns, MaxFnMsgs)},
        qu \in {NoFields, [question |-> <<" ">>], [question |-> <<" ", "q">>]},
        me \in {NoFields, [message |-> <<"m", " ">>]}}

InitResolve ==
    /\ pc = "resolve_call"
    /\ reqKind = "none"
    /\ body \in ResolveBodies
    /\ q = <<>>
    /\ topK = Num(0)
    /\ maxTurns = HistoryMaxTurns
    /\ rpcArgs = NoFields
    /\ rpcData = <<>>
    /\ retrieved = <<>>
    /\ history = <<>>
    /\ messages = <<>>
    /\ calls = <<>>
    /\ results = <<>>
    /\ responses = <<>>
    /\ chat = NoFields
    /\ client = NoFields

ResolveReturns ==
    /\ pc = "resolve_call"
    /\ q' = lastUserFromHistory(body)
    /\ pc' = "resolve_done"
    /\ UNCHANGED <<reqKind, body, topK, maxTurns, rpcArgs, rpcData, retrieved,
                   history, messages, calls, results, responses, chat, client>>
    /\ UNCHANGED <<chat, client>>

NextResolve == ResolveReturns

SpecResolve == InitResolve /\ [][NextResolve]_vars

\* the position of the most recent user turn (there is one)
MostRecentUser(msgs) ==
    CHOOSE i \in 1..Len(msgs) :
        /\ msgs[i].role = "user"
        /\ \A j \in (i + 1)..Len(msgs) : msgs[j].role # "user"

\* what the legacy fields can give: a present field, trimmed; the empty
\* string when neither is present
LegacyCandidates(b) ==
    {Trim(b[f]) : f \in {"question", "message"} \cap DOMAIN b}
    \cup (IF {"question", "message"} \cap DOMAIN b = {} THEN {<<>>} ELSE {})

\* C4: when the turns hold a user turn, the resolved query is the trimmed
\* content of the most recent one; when that is blank, the query comes from
\* the question/message fields, never from an older user turn or from an
\* assistant turn.
C4_MostRecentUserTurn ==
    (/\ pc = "resolve_done"
     /\ HasMessages(body)
     /\ \E i \in 1..Len(body.messages) : body.messages[i].role = "user") =>
        LET c == Trim(body.messages[MostRecentUser(body.messages)].content)
        IN  IF c # <<>> THEN q = c ELSE q \in LegacyCandidates(body)

\* C4 witness: two user turns with different texts and then an assistant
\* turn; the query is the second user turn's text, trimmed.
C4_Witness ==
    /\ pc = "resolve_done"
    /\ HasMessages(body) /\ Len(body.messages) = 3
    /\ body.messages[1] = [role |-> "user", content |-> <<" ", "a">>]
    /\ body.messages[2] = [role |-> "user", content |-> <<"b", " ">>]
    /\ body.messages[3].role = "assistant"
    /\ q = <<"b">>

-----------------------------------------------------------------------------
(* normalizeHistory on its own: SpecNormalize *)

\* two contents longer than ContentLimit: one blank up to the limit, one not
LongBlankThenText == [i \in 1..(ContentLimit + 1) |-> IF i <= ContentLimit THEN " " ELSE "x"]
LongTextThenText == [i \in 1..(ContentLimit + 1) |-> IF 1 < i /\ i <= ContentLimit THEN " " ELSE "y"]

NormalizeTurns ==
    [role : {"user", "assistant", "system"}, content : {<<" ">>, <<"a", " ">>}]
    \cup [role : {"user"}, content : {LongBlankThenText, LongTextThenText}]

NormalizeBodies ==
    {NoFields} \cup {[messages |-> t] : t \in SeqsUpTo(NormalizeTurns, MaxFnMsgs)}

InitNormalize ==
    /\ pc = "normalize_call"
    /\ reqKind = "none"
    /\ body \in NormalizeBodies
    /\ q = <<>>
    /\ topK = Num(0)
    /\ maxTurns \in 0..MaxN
    /\ rpcArgs = NoFields
    /\ rpcData = <<>>
    /\ retrieved = <<>>
    /\ history = <<>>
    /\ messages = <<>>
    /\ calls = <<>>
    /\ results = <<>>
    /\ responses = <<>>
    /\ chat = NoFields
    /\ client = NoFields

NormalizeReturns ==
    /\ pc = "normalize_call"
    /\ history' = normalizeHistory(body, maxTurns)
    /\ pc' = "normalize_done"
    /\ UNCHANGED <<reqKind, body, q, topK, maxTurns, rpcArgs, rpcData, retrieved,
                   messages, calls, results, responses>>
    /\ UNCHANGED <<chat, client>>

NextNormalize == NormalizeReturns

SpecNormalize == InitNormalize /\ [][NextNormalize]_vars

\* the turns with role user or assistant whose content, cut to its first
\* ContentLimit characters, is not blank; each with its content so cut
RECURSIVE Surviving(_)
Surviving(msgs) ==
    IF msgs = <<>> THEN <<>>
    ELSE LET m == Head(msgs)
             cut == SubSeq(m.content, 1,
                           IF Len(m.content) < ContentLimit THEN Len(m.content)
                           ELSE ContentLimit)
         IN  (IF m.role \in {"user", "assistant"} /\ Trim(cut) # <<>>
              THEN <<[role |-> m.role, content |-> cut]>> ELSE <<>>)
             \o Surviving(Tail(msgs))

\* C6: for a maximum N >= 1 the normalised history is the last min(N, s) of
\* the s surviving turns, in their order: at most N turns, the oldest
\* dropped first.
C6_LastNSurvivingTurns ==
    (pc = "normalize_done" /\ maxTurns >= 1) =>
        LET surv == Surviving(IF HasMessages(body) THEN body.messages ELSE <<>>)
            s == Len(surv)
            k == IF maxTurns < s THEN maxTurns ELSE s
        IN  /\ Len(history) <= maxTurns
            /\ history = SubSeq(surv, s - k + 1, s)
            /\ \A i \in 1..Len(history) :
                  /\ history[i].role \in {"user", "assistant"}
                  /\ Trim(history[i].content) # <<>>

\* C6 witness: three turns survive, the maximum is two, and the two most
\* recent (different) turns are what is left.
C6_Witness ==
    /\ pc = "normalize_done"
    /\ maxTurns = 2
    /\ HasMessages(body) /\ Len(Surviving(body.messages)) = 3
    /\ Len(history) = 2
    /\ history[1] # history[2]
    /\ body.messages[1].content = <<"a", " ">>
    /\ history[1].role = "assistant"
    /\ Len(body.messages[3].content) > ContentLimit

\* C13 (as claimed): with a maximum of N = 0 the normalised history is the
\* empty sequence, and the prompt assembled from it is the system block
\* followed by the final user block and nothing else.
C13_ZeroTurnsEmptyHistory ==
    (pc = "normalize_done" /\ maxTurns = 0) =>
        /\ history = <<>>
        /\ LET prompt == buildMessagesWithHistory(<<"q">>, history, <<>>)
           IN  /\ Len(prompt) = 2
               /\ prompt[1].role = "system"
               /\ prompt[2].role = "user"

-----------------------------------------------------------------------------
(* buildMessagesWithHistory on its own: SpecAssemble *)

AssembleQueries == {<<"q">>, <<"a">>}

AssembleTurns ==
    [role : {"user", "assistant"}, content : {<<"a">>, <<"b", " ">>}]

AssembleEvidence ==
    [text : {<<"X">>, <<"Y", " ", "Z">>}, source : {<<>>, <<"s">>},
     similarity : {Num(9)}]

InitAssemble ==
    /\ pc = "assemble_call"
    /\ reqKind = "none"
    /\ body = NoFields
    /\ q \in AssembleQueries
    /\ topK = Num(0)
    /\ maxTurns = HistoryMaxTurns
    /\ rpcArgs = NoFields
    /\ rpcData = <<>>
    /\ retrieved \in SeqsUpTo(AssembleEvidence, MaxCtx)
    /\ history \in SeqsUpTo(AssembleTurns, MaxHist)
    /\ messages = <<>>
    /\ calls = <<>>
    /\ results = <<>>
    /\ responses = <<>>
    /\ chat = NoFields
    /\ client = NoFields

AssembleReturns ==
    /\ pc = "assemble_call"
    /\ messages' = buildMessagesWithHistory(q, history, contextsOf(retrieved))
    /\ pc' = "assemble_done"
    /\ UNCHANGED <<reqKind, body, q, topK, maxTurns, rpcArgs, rpcData, retrieved,
                   history, calls, results, responses>>
    /\ UNCHANGED <<chat, client>>

NextAssemble == AssembleReturns

SpecAssemble == InitAssemble /\ [][NextAssemble]_vars

\* the texts of parts occur in s one after the other, from position from on
RECURSIVE InOrder(_, _, _)
InOrder(s, parts, from) ==
    IF parts = <<>> THEN TRUE
    ELSE \E k \in from..(Len(s) - Len(Head(parts)) + 1) :
            /\ SubSeq(s, k, k + Len(Head(parts)) - 1) = Head(parts)
            /\ InOrder(s, Tail(parts), k + Len(Head(parts)))

\* C9: the prompt has |history| + 2 blocks: the one system block, which is
\* the fixed policy text, then the history turns unchanged and in order,
\* then the one final user block, which holds the evidence texts in
\* retrieval order and after them the query; no evidence text occurs in a
\* block before the last (the evidence texts are drawn from tokens that
\* occur in no history turn, so an occurrence is a placement).
C9_PromptShape ==
    (pc = "assemble_done") =>
        LET n == Len(history)
        IN  /\ Len(messages) = n + 2
            /\ messages[1].role = "system"
            /\ messages[1].content = SystemPolicy
            /\ \A i \in 2..Len(messages) : messages[i].role # "system"
            /\ \A i \in 1..n : messages[i + 1] = history[i]
            /\ messages[n + 2].role = "user"
            /\ InOrder(messages[n + 2].content,
                       [i \in 1..Len(retrieved) |-> retrieved[i].text] \o <<q>>, 1)
            /\ \A i \in 1..(n + 1) : \A j \in 1..Len(retrieved) :
                  ~Contains(messages[i].content, retrieved[j].text)

\* C9 witness: a prompt of four blocks built from two different history
\* turns and two evidence records.
C9_Witness ==
    /\ pc = "assemble_done"
    /\ Len(history) = 2 /\ history[1] # history[2]
    /\ Len(retrieved) = 2 /\ retrieved[1].text # retrieved[2].text
    /\ Len(messages) = 4

\* entry i of the digest as the claim words it: "[#i] source: <source_i>",
\* a newline, text_i
ExpectedEntry(i) ==
    <<IndexToken(i), " ", "source:", " ">> \o retrieved[i].source
    \o <<"\n">> \o retrieved[i].text

\* the first n entries, consecutive ones separated by one blank line
RECURSIVE ExpectedDigest(_)
ExpectedDigest(n) ==
    IF n = 0 THEN <<>>
    ELSE IF n = 1 THEN ExpectedEntry(1)
    ELSE ExpectedDigest(n - 1) \o <<"\n", "\n">> \o ExpectedEntry(n)

\* the evidence section of the final user block: what stands between the
\* context heading and the question heading
EvidenceSection ==
    LET last == messages[Len(messages)].content
    IN  SubSeq(last, 3, Len(last) - Len(q) - 8)

\* C15: the final user block is the context heading, the evidence section,
\* the question heading, the query and the answer heading; for n >= 1
\* evidence records the section is exactly the n entries "[#i] source:
\* <source_i>", newline, text_i in retrieval order with 1-based i, separated
\* by one blank line, an empty source still carrying its label; the section
\* is the placeholder iff n = 0, and it is never empty.
C15_DigestRendering ==
    (pc = "assemble_done") =>
        LET n == Len(retrieved)
            last == messages[Len(messages)].content
        IN  /\ last = <<"#CONTEXT", "\n">> \o EvidenceSection
                      \o <<"\n", "\n", "#QUESTION", "\n">> \o q
                      \o <<"\n", "\n", "#ANSWER", "\n">>
            /\ (n >= 1) => EvidenceSection = ExpectedDigest(n)
            /\ (n >= 1) => IndexTokens(EvidenceSection) = n
            /\ (EvidenceSection = NoContext) <=> (n = 0)
            /\ EvidenceSection # <<>>

\* C15 witness: a digest of two entries, the first with a source and the
\* second with an empty one, rendered with its label.
C15_Witness ==
    /\ pc = "assemble_done"
    /\ Len(retrieved) = 2
    /\ retrieved[1].source # <<>> /\ retrieved[2].source = <<>>
    /\ Contains(EvidenceSection,
                <<"\n", "\n", IndexToken(2), " ", "source:", " ", "\n">>
                \o retrieved[2].text)

-----------------------------------------------------------------------------
(* searchSupabase's row normalisation on its own: SpecRow *)

RowFieldParts(f, values) == {NoFields} \cup {(f :> v) : v \in values}

BackendRows ==
    {c @@ t @@ p @@ so @@ u @@ sc :
        c \in RowFieldParts("content", {<<>>, <<" ">>, <<"A">>}),
        t \in RowFieldParts("text", {<<>>, <<"B", " ">>}),
        p \in RowFieldParts("page_text", {<<"P">>}),
        so \in RowFieldParts("source", {<<>>, <<"s">>}),
        u \in RowFieldParts("url", {<<"u">>}),
        sc \in {NoFields, [similarity |-> JNum(9)], [score |-> JNum(5)]}}

InitRow ==
    /\ pc = "row_call"
    /\ reqKind = "none"
    /\ body = NoFields
    /\ q = <<>>
    /\ topK = Num(0)
    /\ maxTurns = HistoryMaxTurns
    /\ rpcArgs = NoFields
    /\ rpcData \in {<<row>> : row \in BackendRows}
    /\ retrieved = <<>>
    /\ history = <<>>
    /\ messages = <<>>
    /\ calls = <<>>
    /\ results = <<>>
    /\ responses = <<>>
    /\ chat = NoFields
    /\ client = NoFields

\* the callback of rows.map on one row; retrieved holds what it returns,
\* before the filter
RowReturns ==
    /\ pc = "row_call"
    /\ retrieved' = <<normalizeRow(rpcData[1])>>
    /\ pc' = "row_done"
    /\ UNCHANGED <<reqKind, body, q, topK, maxTurns, rpcArgs, rpcData, history,
                   messages, calls, results, responses, chat, client>>

NextRow == RowReturns

SpecRow == InitRow /\ [][NextRow]_vars

\* the value of the first of the fields that is present and not the empty
\* string; the empty string when there is none
RECURSIVE FirstNonEmpty(_, _)
FirstNonEmpty(row, fields) ==
    IF fields = <<>> THEN <<>>
    ELSE IF Head(fields) \in DOMAIN row /\ row[Head(fields)] # <<>>
         THEN row[Head(fields)]
         ELSE FirstNonEmpty(row, Tail(fields))

\* C14 (as claimed): the normalised text of a row is the (trimmed) value of
\* the first non-empty field among content, text, chunk, body, page_text,
\* document, and its source the (trimmed) value of the first non-empty field
\* among source, url, source_url, page_url, doc_url, path.
C14_FirstNonEmptyFieldWins ==
    (pc = "row_done") =>
        /\ retrieved[1].text = Trim(FirstNonEmpty(rpcData[1], TextFields))
        /\ retrieved[1].source = Trim(FirstNonEmpty(rpcData[1], SourceFields))

-----------------------------------------------------------------------------
(* The two chat pages, ChatPage and EmbedPage: SpecClient *)

\* requests one page starts in a behaviour
MaxSends == 3

ChatMaxSendTurns == 60
EmbedMaxSendTurns == 20

MAX_SEND_TURNS(page) ==
    IF page = "chat" THEN ChatMaxSendTurns ELSE EmbedMaxSendTurns

\* what the user types into the input box
TypedTexts == {<<"hi">>, <<" ">>, <<"yo", " ">>}

\* how a request ends: a 2xx response with an answer, a 2xx response without
\* one, or a failure (non-2xx response or rejected fetch)
Outcomes == {"answer", "empty", "fail"}

\* the component's state as one render sees it
Snapshot(c) == [messages |-> c.messages, input |-> c.input, thinking |-> c.thinking]

\* the body of the request of one send
requestBody(page, text, nextMessages) ==
    IF page = "chat"
    THEN [message |-> text, top_k |-> 8,
          messages |-> ArraySlice(nextMessages, -MAX_SEND_TURNS(page))]
    ELSE [question |-> text,
          messages |-> ArraySlice(nextMessages, -MAX_SEND_TURNS(page))]

\* the assistant message appended when a request ends
replyOf(outcome) ==
    [role |-> "assistant",
     content |-> IF outcome = "answer" THEN <<"ANSWER">>
                 ELSE IF outcome = "empty" THEN <<"(NO_REPLY)">>
                 ELSE <<"ERROR:", " ", "API", " ", "error">>]

RemoveAt(s, k) == SubSeq(s, 1, k - 1) \o SubSeq(s, k + 1, Len(s))

handlerVars ==
    <<pc, reqKind, body, q, topK, maxTurns, rpcArgs, rpcData, retrieved,
      history, messages, calls, results, responses, chat>>

InitClient ==
    /\ pc = "client"
    /\ reqKind = "none"
    /\ body = NoFields
    /\ q = <<>>
    /\ topK = Num(0)
    /\ maxTurns = HistoryMaxTurns
    /\ rpcArgs = NoFields
    /\ rpcData = <<>>
    /\ retrieved = <<>>
    /\ history = <<>>
    /\ messages = <<>>
    /\ calls = <<>>
    /\ results = <<>>
    /\ responses = <<>>
    /\ chat = NoFields
    /\ \E page \in {"chat", "embed"} :
          client = [page |-> page,
                    messages |-> <<>>, input |-> <<>>, thinking |-> FALSE,
                    apiStatus |-> "idle",
                    seen |-> [messages |-> <<>>, input |-> <<>>, thinking |-> FALSE],
                    inflight |-> <<>>,
                    started |-> 0]

\* onChange of the input box: setInput(value)
ClientType(text) ==
    /\ pc = "client"
    /\ client.input # text
    /\ client' = [client EXCEPT !.input = text]
    /\ UNCHANGED handlerVars

\* React renders the component again: the handlers of the new render close
\* over the current state
ClientRender ==
    /\ pc = "client"
    /\ client.seen # Snapshot(client)
    /\ client' = [client EXCEPT !.seen = Snapshot(client)]
    /\ UNCHANGED handlerVars

\* sendMessage / send up to its await: input, thinking and messages are the
\* ones of the render the handler belongs to
ClientSend ==
    /\ pc = "client"
    /\ client.started < MaxSends
    /\ LET text == Trim(client.seen.input)
           nextMessages == Append(client.seen.messages,
                                  [role |-> "user", content |-> text])
       IN  IF text = <<>> \/ client.seen.thinking
           THEN UNCHANGED client
           ELSE client' = [client EXCEPT
                    !.input = <<>>,
                    !.thinking = TRUE,
                    !.messages = nextMessages,
                    !.inflight = Append(@, requestBody(client.page, text, nextMessages)),
                    !.started = @ + 1]
    /\ UNCHANGED handlerVars

\* clearChat, from the clear button, which the render disables while
\* thinking or with no messages (so the handler's own test of thinking
\* never returns early)
ClientClear ==
    /\ pc = "client"
    /\ ~(client.seen.thinking \/ client.seen.messages = <<>>)
    /\ client' = [client EXCEPT
            !.messages = <<>>,
            !.input = <<>>,
            !.apiStatus = IF client.page = "chat" THEN "idle" ELSE @]
    /\ UNCHANGED handlerVars

\* the rest of sendMessage / send once request k ends: the reply is appended
\* to the current messages, thinking is reset
ClientResponse(k, outcome) ==
    /\ pc = "client"
    /\ k \in 1..Len(client.inflight)
    /\ client' = [client EXCEPT
            !.messages = Append(@, replyOf(outcome)),
            !.thinking = FALSE,
            !.apiStatus = IF client.page # "chat" THEN @
                          ELSE IF outcome = "fail" THEN "error" ELSE "connected",
            !.inflight = RemoveAt(@, k)]
    /\ UNCHANGED handlerVars

NextClient ==
    \/ \E text \in TypedTexts : ClientType(text)
    \/ ClientRender
    \/ ClientSend
    \/ ClientClear
    \/ \E k \in 1..MaxSends, outcome \in Outcomes : ClientResponse(k, outcome)

SpecClient == InitClient /\ [][NextClient]_vars

\* a user message is followed by exactly one assistant message, or it is the
\* last one and its request is outstanding
Paired(msgs, outstanding) ==
    /\ \A i \in 1..Len(msgs) :
          msgs[i].role = "user" =>
              IF i = Len(msgs) THEN outstanding
              ELSE msgs[i + 1].role = "assistant"
    /\ \A i \in 1..Len(msgs) :
          msgs[i].role = "assistant" => (i > 1 /\ msgs[i - 1].role = "user")

=============================================================================
